---- MODULE Spec2Model ----
(***************************************************************************)
(* Model of the Supabase-backed ChecklistWorkspace custom element          *)
(* (src/supabase-config.js): its in-memory progress state, the rendered    *)
(* device table, the localStorage mirror, the realtime channel, the        *)
(* in-flight checklist loads and device_progress upserts, and the          *)
(* device_progress table of the hosted store.                              *)
(***************************************************************************)
EXTENDS Integers, Sequences, FiniteSets, Bags, TLC

\* ---------------------------------------------------------------- bounds
MaxSwitch == 2      \* building-key changes in one run
MaxClicks == 2      \* row clicks in one run
MaxDeliveries == 2  \* change notifications delivered in one run

\* ------------------------------------------------------------ the world
Keys == {"A", "B"}            \* checklist ids offered by the picker
NoKey == "null"               \* this.checklistKey before the first selection

\* devices table: the device list stored for each checklist, in row order
DevicesOf(k) == IF k = "A" THEN <<1, 2>> ELSE <<3>>

\* getUniqueDeviceId: `${checklistKey}-${serial}-${loop}-${address}-${messages}`;
\* a device is identified here by one number standing for its four fields
getUniqueDeviceId(key, device) == <<key, device>>

EmptyUid == <<>>              \* a falsy device_uid ("" or missing)
AllDevices == {1, 2, 3}
Uids == {getUniqueDeviceId(k, d) : k \in Keys, d \in AllDevices}

Range(s) == {s[i] : i \in 1..Len(s)}

NoEntry == [absent |-> TRUE]  \* localStorage.getItem(...) === null
NoData == [absent |-> TRUE]   \* this.data === null
NoChannel == 0                \* this.realtimeChannel === null

VARIABLES
    checklistKey,     \* this.checklistKey
    state,            \* this.state: [checkedDevices, checkHistory]
    data,             \* this.data: NoData or [key, devices]
    realtimeChannel,  \* this.realtimeChannel: NoChannel or a channel id
    view,             \* what this.innerHTML shows: blank, loading, workspace, error
    boxes,            \* rendered .device-row checkboxes: uid -> checked property
    localStorage,     \* checklistState_<key> entries
    channels,         \* channels open at the gateway: set of [id, filter]
    loads,            \* in-flight loadChecklistFromSupabase calls, oldest first
    device_progress,  \* the device_progress table
    upserts,          \* in-flight device_progress upserts, in issue order
    toast,            \* the showToast message of the most recent event, if any
    mounted,          \* element is still connected to the document
    switches,         \* building-key changes so far
    clicks,           \* row clicks so far
    deliveries,       \* change notifications delivered so far
    last,             \* the most recent event and the branch it took
    sortState,        \* this.sortState: [key, dir]
    tbody,            \* #device-table-body: its .device-row elements in order, [uid, hidden]
    companies,        \* the companies table: rows [id, name]
    checklists,       \* the checklists table: rows [id, company_id, name]
    devices,          \* the devices table: rows [id, checklist_id, device]
    flows,            \* admin page: upload and delete flows in flight
    listed,           \* admin page: Delete buttons of #checklist-list
    started,          \* admin page: flows started so far
    runs,             \* admin page: the flow that completed last, and whether
                      \* every flow so far ran alone
    feed,             \* change notifications of this viewer's own upserts that
                      \* the change feed has not delivered yet, in commit order
    toggled,          \* the device the viewer toggled last and the value a
                      \* toggle gives it
    cleared,          \* the checklists cleared with clear-all, none of whose
                      \* devices has been checked since
    listeners         \* local-only workspace (app.js): click listeners the
                      \* element carries

\* the viewer's own writes on their way back through the change feed, and
\* what the viewer did last
feedVars == <<feed, toggled, cleared>>

\* the local-only workspace of app.js
localVars == <<listeners>>

\* the admin page and the store tables it maintains
adminVars == <<companies, checklists, devices, flows, listed, started, runs>>

vars == <<checklistKey, state, data, realtimeChannel, view, boxes, localStorage,
          channels, loads, device_progress, upserts, toast, mounted,
          switches, clicks, deliveries, last, sortState, tbody, adminVars,
          feedVars, localVars>>

EmptyState == [checkedDevices |-> {}, checkHistory |-> <<>>]
NoBoxes == [u \in {} |-> FALSE]

\* ------------------------------------------------------------- helpers

\* Array.prototype.lastIndexOf: 0 when not found (1-based sequences)
RECURSIVE lastIndexOf(_, _)
lastIndexOf(s, x) ==
    IF Len(s) = 0 THEN 0
    ELSE IF s[Len(s)] = x THEN Len(s)
    ELSE lastIndexOf(SubSeq(s, 1, Len(s) - 1), x)

\* Array.prototype.splice(i, 1)
splice1(s, i) == SubSeq(s, 1, i - 1) \o SubSeq(s, i + 1, Len(s))

\* all orders in which the gateway may return a set of rows
RECURSIVE Orders(_)
Orders(S) ==
    IF S = {} THEN {<<>>}
    ELSE UNION {{<<x>> \o t : t \in Orders(S \ {x})} : x \in S}

\* Array.prototype.filter(row => row.checked)
RECURSIVE filterChecked(_)
filterChecked(rows) ==
    IF Len(rows) = 0 THEN <<>>
    ELSE (IF rows[1].checked THEN <<rows[1]>> ELSE <<>>) \o filterChecked(Tail(rows))

\* insert r after every element whose updated_at is <= r's (stable)
RECURSIVE insertByTime(_, _)
insertByTime(sorted, r) ==
    IF Len(sorted) = 0 THEN <<r>>
    ELSE IF sorted[Len(sorted)].updated_at - r.updated_at <= 0 THEN Append(sorted, r)
    ELSE Append(insertByTime(SubSeq(sorted, 1, Len(sorted) - 1), r), sorted[Len(sorted)])

\* no sort: the rows stay in the order the gateway returned them
sortByUpdatedAt_unsorted(rows) == rows

\* Array.prototype.sort((a, b) => new Date(a.updated_at) - new Date(b.updated_at))
RECURSIVE sortByUpdatedAt(_)
sortByUpdatedAt(rows) ==
    IF Len(rows) = 0 THEN <<>>
    ELSE insertByTime(sortByUpdatedAt(SubSeq(rows, 1, Len(rows) - 1)), rows[Len(rows)])

\* the for-loop of loadProgressFromSupabase over checkedRows
RECURSIVE foldRows(_, _)
foldRows(rows, acc) ==
    IF Len(rows) = 0 THEN acc
    ELSE IF rows[1].device_uid = EmptyUid THEN foldRows(Tail(rows), acc)
    ELSE foldRows(Tail(rows),
                  [checkedDevices |-> acc.checkedDevices \cup {rows[1].device_uid},
                   checkHistory |-> Append(acc.checkHistory, rows[1].device_uid)])

\* a saveInspectedState that stores nothing
saveInspectedState_skipped(ls, key, st) == ls

\* saveInspectedState: JSON of {checked: Array.from(set), history}
\* stored under checklistState_<this.checklistKey>
saveInspectedState(ls, key, st) ==
    [ls EXCEPT ![key] = [checked |-> st.checkedDevices, history |-> st.checkHistory]]

\* a loadInspectedState that never reads the stored snapshot
loadInspectedState_ignoresMirror(ls, key) == EmptyState

\* loadInspectedState: the snapshot stored for the key, or the empty state
loadInspectedState(ls, key) ==
    IF ls[key] # NoEntry
    THEN [checkedDevices |-> ls[key].checked, checkHistory |-> ls[key].history]
    ELSE EmptyState

\* renderTableRows + the checkbox pass of updateUI: one row per device of
\* this.data.devices, id built with the current key, checked iff in the set
renderTableRows(dat, key, st) ==
    [u \in {getUniqueDeviceId(key, d) : d \in Range(dat.devices)} |->
        u \in st.checkedDevices]

\* updateUI: no-op without #device-table-body or this.data
updateUI(v, bx, dat, key, st) ==
    IF v # "workspace" \/ dat = NoData THEN bx ELSE renderTableRows(dat, key, st)

\* ------------------------------------------------------- sort and search

\* bound: the longest device list of the sorted checklist
MaxRows == 3

SortKeys == {"address", "messages"}   \* fields offered by #sort-select
SortDirs == {"asc", "desc"}
SortKey == "S"                        \* the checklist whose table is sorted
SortDevices == {4, 5, 6, 7}           \* its devices

\* the address column of the devices rows (an integer), by device
addressOf(d) == <<1, 2, 1, 2, 10, 1, 10>>[d]

\* the messages column, as UTF-16 code units: "a" "b" "a" "b" "A" "a" "B"
messagesOf(d) == <<(<<97>>), (<<98>>), (<<97>>), (<<98>>), (<<65>>), (<<97>>), (<<66>>)>>[d]

\* Number.prototype.toString: the decimal digits
RECURSIVE toString(_)
toString(n) ==
    IF n < 10 THEN <<48 + n>> ELSE toString(n \div 10) \o <<48 + (n % 10)>>

\* String.prototype.toLowerCase on A..Z
toLowerCase(str) ==
    [i \in 1..Len(str) |-> IF str[i] \in 65..90 THEN str[i] + 32 ELSE str[i]]

\* the < of two strings: code unit by code unit, a proper prefix is less
RECURSIVE strLess(_, _)
strLess(a, b) ==
    IF Len(b) = 0 THEN FALSE
    ELSE IF Len(a) = 0 THEN TRUE
    ELSE IF a[1] # b[1] THEN a[1] < b[1]
    ELSE strLess(Tail(a), Tail(b))

\* (a[key] ?? '').toString().toLowerCase()
sortValue(d, key) ==
    toLowerCase(IF key = "address" THEN toString(addressOf(d)) ELSE messagesOf(d))

\* a comparator that compares the address field as a number
compareDevices_numeric(a, b, ss) ==
    LET dir == IF ss.dir = "asc" THEN 1 ELSE -1
        less(x, y) == IF ss.key = "address" THEN addressOf(x) < addressOf(y)
                      ELSE strLess(sortValue(x, ss.key), sortValue(y, ss.key))
    IN IF less(a, b) THEN (-1) * dir
       ELSE IF less(b, a) THEN 1 * dir
       ELSE 0

\* the comparator of renderTableRows
compareDevices(a, b, ss) ==
    LET dir == IF ss.dir = "asc" THEN 1 ELSE -1
        valA == sortValue(a, ss.key)
        valB == sortValue(b, ss.key)
    IN IF strLess(valA, valB) THEN (-1) * dir
       ELSE IF strLess(valB, valA) THEN 1 * dir
       ELSE 0

\* stable insertion: r goes after every element the comparator does not
\* put after it
RECURSIVE insertDevice(_, _, _)
insertDevice(sorted, r, ss) ==
    IF Len(sorted) = 0 THEN <<r>>
    ELSE IF compareDevices(sorted[Len(sorted)], r, ss) <= 0 THEN Append(sorted, r)
    ELSE Append(insertDevice(SubSeq(sorted, 1, Len(sorted) - 1), r, ss),
                sorted[Len(sorted)])

\* [...devices].sort(comparator): Array.prototype.sort is stable
RECURSIVE sortDevices(_, _)
sortDevices(devs, ss) ==
    IF Len(devs) = 0 THEN <<>>
    ELSE insertDevice(sortDevices(SubSeq(devs, 1, Len(devs) - 1), ss), devs[Len(devs)], ss)

\* renderTableRows: the .device-row elements in table order, none hidden
renderedRows(dat, key, ss) ==
    LET sorted == sortDevices(dat.devices, ss)
    IN [i \in 1..Len(sorted) |->
           [uid |-> getUniqueDeviceId(key, sorted[i]), hidden |-> FALSE]]

\* updateUI, the rows it leaves: no-op without #device-table-body or this.data
updateUIRows(v, rw, dat, key, ss) ==
    IF v # "workspace" \/ dat = NoData THEN rw ELSE renderedRows(dat, key, ss)

\* Array.prototype.join(' ')
RECURSIVE join(_)
join(cells) ==
    IF Len(cells) = 0 THEN <<>>
    ELSE IF Len(cells) = 1 THEN cells[1]
    ELSE cells[1] \o <<32>> \o join(Tail(cells))

\* String.prototype.trim for spaces
RECURSIVE trim(_)
trim(str) ==
    IF Len(str) = 0 THEN str
    ELSE IF str[1] = 32 THEN trim(Tail(str))
    ELSE IF str[Len(str)] = 32 THEN trim(SubSeq(str, 1, Len(str) - 1))
    ELSE str

\* String.prototype.includes
includes(text, q) ==
    \E k \in 0..(Len(text) - Len(q)) : SubSeq(text, k + 1, k + Len(q)) = q

\* the lower-cased textContent of the six cells of a row, joined by ' ':
\* checkbox cell (white space), address, messages, type, model, serial
rowText(d) ==
    join(<<(<<32>>), toLowerCase(toString(addressOf(d))), toLowerCase(messagesOf(d)),
           (<<>>), (<<>>), (<<>>)>>)

\* a cleanup that leaves the channel open at the gateway
cleanupRealtimeSubscription_keeps(chs, rc) == chs

\* cleanupRealtimeSubscription: db.removeChannel(this.realtimeChannel)
cleanupRealtimeSubscription(chs, rc) == {c \in chs : c.id # rc}

\* db.channel(...): a channel object distinct from every open one and
\* from the one the element holds
newChannel(chs, rc) ==
    CHOOSE n \in 1..(Cardinality(chs) + 2) : n # rc /\ \A c \in chs : c.id # n

\* a setupRealtimeSubscription without the cleanup call at its head
setupRealtimeSubscription_noCleanup(chs, rc, key) ==
    chs \cup {[id |-> newChannel(chs, rc), filter |-> key]}

\* a setupRealtimeSubscription that returns after its cleanup call
setupRealtimeSubscription_returnsEarly(chs, rc, key) == cleanupRealtimeSubscription(chs, rc)

\* setupRealtimeSubscription: the open channels afterwards
setupRealtimeSubscription(chs, rc, key) ==
    cleanupRealtimeSubscription(chs, rc) \cup {[id |-> newChannel(chs, rc), filter |-> key]}

\* the record kept in `last`
Event(op, tag) == [op |-> op, tag |-> tag, sub |-> ""]

\* device_uids a row of checklist k may carry: its devices' ids
UidsOf(k) == {getUniqueDeviceId(k, d) : d \in Range(DevicesOf(k))}

Row(k, d, checked, t) == [checklist_id |-> k, device_uid |-> getUniqueDeviceId(k, d),
                          checked |-> checked, updated_at |-> t]

\* the device_progress table earlier sessions and other viewers have left:
\* both devices of A checked, the second one first; the device of B unchecked
PriorTable == {Row("A", 1, TRUE, 2), Row("A", 2, TRUE, 1), Row("B", 3, FALSE, 1)}

\* new Date() at the n-th row click: later than every row of PriorTable,
\* and later at each click
Now(n) == 2 + n

\* ---------------------------------------------------------------- Init

\* the snapshot a previous session of this page has left for checklist k:
\* its first device checked
PriorSnapshot(k) == [checked |-> {getUniqueDeviceId(k, DevicesOf(k)[1])},
                     history |-> <<getUniqueDeviceId(k, DevicesOf(k)[1])>>]

\* no flow has completed yet
NoRun == [kind |-> "none", obj |-> [absent |-> TRUE], mode |-> "", outcome |-> "",
          inRow |-> 0, company |-> 0, checklist |-> 0, serial |-> TRUE,
          before |-> {}]

\* the admin page is not open and the tables it maintains are not looked at
AdminIdle ==
    /\ companies = {}
    /\ checklists = {}
    /\ devices = {}
    /\ flows = EmptyBag
    /\ listed = {}
    /\ started = 0
    /\ runs = NoRun

\* constructor: this.sortState = { key: 'address', dir: 'asc' }
DefaultSort == [key |-> "address", dir |-> "asc"]

\* no row has been clicked yet
NoToggle == [absent |-> TRUE]

\* the element after its constructor has run and it has been connected
Constructed ==
    /\ checklistKey = NoKey
    /\ state = EmptyState
    /\ data = NoData
    /\ realtimeChannel = NoChannel
    /\ view = "blank"
    /\ boxes = NoBoxes
    /\ channels = {}
    /\ loads = <<>>
    /\ upserts = <<>>
    /\ toast = "none"
    /\ mounted = TRUE
    /\ switches = 0
    /\ clicks = 0
    /\ deliveries = 0
    /\ last = Event("init", "")
    /\ sortState = DefaultSort
    /\ tbody = <<>>
    /\ feed = <<>>
    /\ toggled = NoToggle
    /\ cleared = {}
    /\ listeners = 0

Init ==
    /\ Constructed
    /\ \/ /\ device_progress = PriorTable
          /\ localStorage = [k \in Keys \cup {NoKey} |->
                                IF k \in Keys THEN PriorSnapshot(k) ELSE NoEntry]
       \/ /\ device_progress = {}
          /\ localStorage = [k \in Keys \cup {NoKey} |->
                                IF k = "A" THEN PriorSnapshot(k) ELSE NoEntry]
    /\ AdminIdle

\* ------------------------------------------------ loading a checklist

\* attributeChangedCallback('building-key', old, new) and the synchronous
\* head of loadChecklistFromSupabase, up to the first await
attributeChangedCallback(newValue) ==
    /\ mounted
    /\ switches < MaxSwitch
    /\ newValue # checklistKey                     \* oldValue !== newValue
    /\ channels' = cleanupRealtimeSubscription(channels, realtimeChannel)
    /\ realtimeChannel' = NoChannel
    /\ checklistKey' = newValue
    /\ state' = EmptyState
    /\ view' = "loading"
    /\ boxes' = NoBoxes
    /\ tbody' = <<>>
    /\ loads' = Append(loads, [pc |-> "checklist", q |-> newValue, row |-> NoKey])
    /\ switches' = switches + 1
    /\ toast' = "none"
    /\ last' = Event("switch", newValue)
    /\ UNCHANGED <<localVars, feedVars, adminVars, sortState, data, localStorage, device_progress, upserts, mounted, clicks, deliveries>>

\* a catch block that goes on to setupRealtimeSubscription
LoadFailed_subscribes(i) ==
    /\ toast' = "load-failed"
    /\ view' = "error"
    /\ boxes' = NoBoxes
    /\ tbody' = <<>>
    /\ loads' = splice1(loads, i)
    /\ last' = Event("loadFailed", loads[i].pc)
    /\ channels' = setupRealtimeSubscription(channels, realtimeChannel, checklistKey)
    /\ realtimeChannel' = newChannel(channels, realtimeChannel)
    /\ UNCHANGED <<localVars, feedVars, adminVars, sortState, checklistKey, state, data, localStorage,
                   device_progress, upserts, mounted, switches, clicks, deliveries>>

\* the catch block of loadChecklistFromSupabase
LoadFailed(i) ==
    /\ toast' = "load-failed"
    /\ view' = "error"
    /\ boxes' = NoBoxes
    /\ tbody' = <<>>
    /\ loads' = splice1(loads, i)
    /\ last' = Event("loadFailed", loads[i].pc)
    /\ UNCHANGED <<localVars, feedVars, adminVars, sortState, checklistKey, state, data, realtimeChannel, localStorage, channels,
                   device_progress, upserts, mounted, switches, clicks,
                   deliveries>>

\* the checklists query returns; on success the devices query is issued
\* for the key the element holds now
ChecklistFetchDone(i, res) ==
    /\ i \in 1..Len(loads) /\ loads[i].pc = "checklist"
    /\ IF res # "ok"
       THEN LoadFailed(i)
       ELSE /\ loads' = [loads EXCEPT ![i] = [pc |-> "devices", row |-> loads[i].q,
                                              q |-> checklistKey]]
            /\ toast' = "none"
            /\ last' = Event("checklistDone", "")
            /\ UNCHANGED <<localVars, feedVars, adminVars, sortState, tbody, checklistKey, state, data, realtimeChannel, view, boxes,
                           localStorage, channels, device_progress, upserts, mounted,
                           switches, clicks, deliveries>>

\* the devices query returns; on success this.data is assigned and
\* loadProgressFromSupabase issues the device_progress query
DeviceFetchDone(i, res) ==
    /\ i \in 1..Len(loads) /\ loads[i].pc = "devices"
    /\ IF res # "ok"
       THEN LoadFailed(i)
       ELSE /\ data' = [key |-> loads[i].row, devices |-> DevicesOf(loads[i].q)]
            /\ loads' = [loads EXCEPT ![i] = [pc |-> "progress", row |-> loads[i].row,
                                              q |-> checklistKey]]
            /\ toast' = "none"
            /\ last' = Event("devicesDone", "")
            /\ UNCHANGED <<localVars, feedVars, adminVars, sortState, tbody, checklistKey, state, realtimeChannel, view, boxes,
                           localStorage, channels, device_progress, upserts, mounted,
                           switches, clicks, deliveries>>

\* rows of device_progress with checklist_id = key
progressRows(key) == {r \in device_progress : r.checklist_id = key}

\* a loadProgressFromSupabase whose catch block leaves the progress empty
\* instead of reading the stored snapshot
loadProgressFromSupabase_noFallback(res, rows, ls, key) ==
    IF res # "ok" THEN EmptyState
    ELSE IF Len(rows) = 0 THEN loadInspectedState(ls, key)
    ELSE foldRows(sortByUpdatedAt(filterChecked(rows)), EmptyState)

\* loadProgressFromSupabase after its await, for a result `rows` (a
\* sequence) or a failure: the new this.state
loadProgressFromSupabase(res, rows, ls, key) ==
    IF res # "ok" \/ Len(rows) = 0
    THEN loadInspectedState(ls, key)
    ELSE foldRows(sortByUpdatedAt(filterChecked(rows)), EmptyState)

\* the outcome of loadProgressFromSupabase: Synced or LocalOnly
progressTag(res, rows) ==
    IF res # "ok" THEN "failed" ELSE IF Len(rows) = 0 THEN "empty" ELSE "synced"

\* the device_progress query returns; loadProgressFromSupabase finishes,
\* then render() and setupRealtimeSubscription() run
ProgressFetchDone(i, res, rows) ==
    /\ i \in 1..Len(loads) /\ loads[i].pc = "progress"
    /\ rows \in Orders(progressRows(loads[i].q))
    /\ state' = loadProgressFromSupabase(res, rows, localStorage, checklistKey)
    /\ localStorage' = IF res = "ok" /\ Len(rows) > 0
                         THEN saveInspectedState(localStorage, checklistKey, state')
                         ELSE localStorage
    /\ toast' = IF res # "ok" THEN "progress-warning" ELSE "none"
    /\ view' = "workspace"
    /\ boxes' = renderTableRows(data, checklistKey, state')
    /\ tbody' = renderedRows(data, checklistKey, sortState)
    /\ channels' = setupRealtimeSubscription(channels, realtimeChannel, checklistKey)
    /\ realtimeChannel' = newChannel(channels, realtimeChannel)
    /\ loads' = splice1(loads, i)
    /\ last' = [Event("progressDone", progressTag(res, rows)) EXCEPT
                    !.sub = IF realtimeChannel = NoChannel THEN "opened" ELSE "replaced"]
    /\ UNCHANGED <<localVars, feedVars, adminVars, sortState, checklistKey, data, device_progress, upserts, mounted, switches, clicks, deliveries>>

\* ------------------------------------------------------- user toggle

\* a handleRowClick that takes the checkbox's checked property itself as
\* isInspected
handleRowClick_inverted(st, deviceId, cbChecked) ==
    IF cbChecked
    THEN [checkedDevices |-> st.checkedDevices \cup {deviceId},
          checkHistory |-> Append(st.checkHistory, deviceId)]
    ELSE [checkedDevices |-> st.checkedDevices \ {deviceId},
          checkHistory |-> IF lastIndexOf(st.checkHistory, deviceId) > 0
                           THEN splice1(st.checkHistory,
                                        lastIndexOf(st.checkHistory, deviceId))
                           ELSE st.checkHistory]

\* handleRowClick, the mutation of this.state: `cbChecked` is the checked
\* property of the row's checkbox when the handler reads it
handleRowClick(st, deviceId, cbChecked) ==
    LET isInspected == ~cbChecked
        historyIndex == lastIndexOf(st.checkHistory, deviceId)
    IN IF isInspected
       THEN [checkedDevices |-> st.checkedDevices \cup {deviceId},
             checkHistory |-> Append(st.checkHistory, deviceId)]
       ELSE [checkedDevices |-> st.checkedDevices \ {deviceId},
             checkHistory |-> IF historyIndex > 0
                              THEN splice1(st.checkHistory, historyIndex)
                              ELSE st.checkHistory]

\* the checked property handleRowClick finds on the checkbox: a click on the
\* checkbox has been applied by the browser before the listener runs, a
\* click elsewhere in the row is applied by the listener itself
\* (checkbox.checked = !checkbox.checked)
checkboxAfterClick(rendered, onCheckbox) ==
    IF onCheckbox THEN ~rendered ELSE ~rendered

\* pushDeviceProgressToSupabase up to its await: nothing without a key,
\* else one upsert of (this.checklistKey, deviceId, checked, now) is issued
pushDeviceProgressToSupabase(ups, key, deviceId, checked, now) ==
    IF key = NoKey THEN ups
    ELSE Append(ups, [checklist_id |-> key, device_uid |-> deviceId,
                      checked |-> checked, updated_at |-> now])

\* the tbody click listener of attachEventListeners, then handleRowClick
\* with its save, re-render and un-awaited pushDeviceProgressToSupabase
RowClick(deviceId, onCheckbox) ==
    LET cb == checkboxAfterClick(boxes[deviceId], onCheckbox)
    IN /\ mounted
       /\ view = "workspace"
       /\ deviceId \in DOMAIN boxes
       /\ clicks < MaxClicks
       /\ clicks' = clicks + 1
       /\ state' = handleRowClick(state, deviceId, cb)
       /\ localStorage' = saveInspectedState(localStorage, checklistKey, state')
       /\ boxes' = updateUI(view, boxes, data, checklistKey, state')
       /\ tbody' = updateUIRows(view, tbody, data, checklistKey, sortState)
       /\ upserts' = pushDeviceProgressToSupabase(upserts, checklistKey, deviceId,
                                                  ~cb, Now(clicks'))
       /\ toast' = "none"
       /\ last' = Event("click", IF cb THEN "uncheck" ELSE "check")
       /\ UNCHANGED <<localVars, feedVars, adminVars, sortState, checklistKey, data, realtimeChannel, view, channels, loads,
                      device_progress, mounted, switches, deliveries>>

\* upsert with onConflict 'checklist_id,device_uid': the row replaces the
\* one with the same key
upsertRow(table, row) ==
    {r \in table : ~(r.checklist_id = row.checklist_id /\ r.device_uid = row.device_uid)}
        \cup {row}

\* a settling that undoes the toggle locally when the upsert failed
upsertSettled_rollback(st, row, res) ==
    IF res = "ok" THEN st
    ELSE IF row.checked
         THEN [st EXCEPT !.checkedDevices = @ \ {row.device_uid}]
         ELSE [st EXCEPT !.checkedDevices = @ \cup {row.device_uid}]

\* pushDeviceProgressToSupabase after its await: the error branch and the
\* catch block log (and toast); this.state is not touched
upsertSettled(st, row, res) == st

\* an upsert of pushDeviceProgressToSupabase returns: applied, answered
\* with an error (toast), or thrown (console only)
PushDone(i, res) ==
    /\ i \in 1..Len(upserts)
    /\ device_progress' = IF res = "ok" THEN upsertRow(device_progress, upserts[i])
                          ELSE device_progress
    /\ toast' = IF res = "error" THEN "sync-warning" ELSE "none"
    /\ state' = upsertSettled(state, upserts[i], res)
    /\ upserts' = splice1(upserts, i)
    /\ last' = Event("pushDone", res)
    /\ UNCHANGED <<localVars, feedVars, adminVars, sortState, tbody, checklistKey, data, realtimeChannel, view, boxes,
                   localStorage, channels, loads, mounted, switches, clicks,
                   deliveries>>

\* ------------------------------------------------------- live updates

NoRow == [absent |-> TRUE]    \* payload.new missing

\* an early return that does not compare the row's checklist id with the
\* active key
payloadIgnored_anyChecklist(row, key) ==
    \/ row = NoRow
    \/ row.device_uid = EmptyUid

\* handleRealtimePayload returns early: no row image, another checklist,
\* or a falsy device_uid
payloadIgnored(row, key) ==
    \/ row = NoRow
    \/ row.checklist_id # key
    \/ row.device_uid = EmptyUid

\* which of the early returns was taken
ignoredTag(row, key) ==
    IF row = NoRow THEN "no-row"
    ELSE IF row.checklist_id # key THEN "other-checklist" ELSE "no-uid"

\* a handler that also pushes a remotely checked device on checkHistory
handleRealtimePayload_pushesHistory(st, row) ==
    LET wasChecked == row.device_uid \in st.checkedDevices
    IN IF row.checked
       THEN (IF ~wasChecked
             THEN [checkedDevices |-> st.checkedDevices \cup {row.device_uid},
                   checkHistory |-> Append(st.checkHistory, row.device_uid)]
             ELSE st)
       ELSE (IF wasChecked
             THEN [st EXCEPT !.checkedDevices = @ \ {row.device_uid}]
             ELSE st)

\* a handler that drops checked = false notifications
handleRealtimePayload_addOnly(st, row) ==
    IF row.checked /\ row.device_uid \notin st.checkedDevices
    THEN [st EXCEPT !.checkedDevices = @ \cup {row.device_uid}]
    ELSE st

\* handleRealtimePayload, the mutation of this.state
handleRealtimePayload(st, row) ==
    LET wasChecked == row.device_uid \in st.checkedDevices
    IN IF row.checked
       THEN (IF ~wasChecked
             THEN [st EXCEPT !.checkedDevices = @ \cup {row.device_uid}]
             ELSE st)
       ELSE (IF wasChecked
             THEN [st EXCEPT !.checkedDevices = @ \ {row.device_uid}]
             ELSE st)

\* the channel callback delivers a change notification
RealtimePayload(row) ==
    /\ realtimeChannel # NoChannel
    /\ deliveries < MaxDeliveries
    /\ deliveries' = deliveries + 1
    /\ IF payloadIgnored(row, checklistKey)
       THEN /\ last' = Event("realtime", ignoredTag(row, checklistKey))
            /\ UNCHANGED <<state, localStorage, boxes, tbody>>
       ELSE /\ state' = handleRealtimePayload(state, row)
            /\ localStorage' = saveInspectedState(localStorage, checklistKey, state')
            /\ boxes' = updateUI(view, boxes, data, checklistKey, state')
            /\ tbody' = updateUIRows(view, tbody, data, checklistKey, sortState)
            /\ last' = Event("realtime",
                             IF state' = state THEN "same"
                             ELSE IF row.checked THEN "added" ELSE "removed")
    /\ toast' = "none"
    /\ UNCHANGED <<localVars, feedVars, adminVars, sortState, checklistKey, data, realtimeChannel, view, channels, loads,
                   device_progress, upserts, mounted, switches, clicks>>

\* ---------------------------------------------------------- clear-all

\* handleGlobalAction('clear-all') with the confirmation given in the modal
\* (the modal covers the page: no other user input comes in between, and
\* the onConfirm callback reads this.state and this.checklistKey when it runs)
ClearAll ==
    /\ mounted
    /\ state' = EmptyState
    /\ localStorage' = saveInspectedState(localStorage, checklistKey, state')
    /\ boxes' = updateUI(view, boxes, data, checklistKey, state')
    /\ tbody' = updateUIRows(view, tbody, data, checklistKey, sortState)
    /\ toast' = "cleared"
    /\ last' = Event("clearAll", "")
    /\ UNCHANGED <<localVars, feedVars, adminVars, sortState, checklistKey, data, realtimeChannel, view, channels, loads,
                   device_progress, upserts, mounted, switches, clicks, deliveries>>

\* ------------------------------------------------------------ lifecycle

\* disconnectedCallback: listeners removed, the channel cleaned up
disconnectedCallback ==
    /\ mounted
    /\ mounted' = FALSE
    /\ channels' = cleanupRealtimeSubscription(channels, realtimeChannel)
    /\ realtimeChannel' = NoChannel
    /\ toast' = "none"
    /\ last' = Event("disconnected", "")
    /\ UNCHANGED <<localVars, feedVars, adminVars, sortState, tbody, checklistKey, state, data, view, boxes, localStorage, loads,
                   device_progress, upserts, switches, clicks, deliveries>>

\* ----------------------------------------------------------------- Next

\* the change notifications the feed may deliver
Payloads == {NoRow} \cup
            UNION {[checklist_id : {k}, device_uid : UidsOf(k) \cup {EmptyUid},
                    checked : BOOLEAN] : k \in Keys}

\* the first selection in the picker after the page has loaded
FirstSelection(k) == checklistKey = NoKey /\ attributeChangedCallback(k)

\* One activation: a checklist is selected once and loaded, then the user
\* toggles rows and clears, upserts complete, notifications arrive and the
\* element may be removed.
Next ==
    \/ \E k \in Keys : FirstSelection(k)
    \/ \E i \in 1..Len(loads), res \in {"ok", "error", "none"} : ChecklistFetchDone(i, res)
    \/ \E i \in 1..Len(loads), res \in {"ok", "error"} : DeviceFetchDone(i, res)
    \/ \E i \in 1..Len(loads), res \in {"ok", "error", "throw"} :
          \E rows \in Orders(progressRows(loads[i].q)) : ProgressFetchDone(i, res, rows)
    \/ \E u \in DOMAIN boxes, onCheckbox \in BOOLEAN : RowClick(u, onCheckbox)
    \/ \E i \in 1..Len(upserts), res \in {"ok", "error", "throw"} : PushDone(i, res)
    \/ \E row \in Payloads : RealtimePayload(row)
    \/ ClearAll
    \/ disconnectedCallback

Spec == Init /\ [][Next]_vars

\* Switching: the picker changes the checklist again and again while earlier
\* loads are still in flight; notifications arrive, the user clears, and the
\* element may be removed.
NextSwitch ==
    \/ \E k \in Keys : attributeChangedCallback(k)
    \/ \E i \in 1..Len(loads), res \in {"ok", "error", "none"} : ChecklistFetchDone(i, res)
    \/ \E i \in 1..Len(loads), res \in {"ok", "error"} : DeviceFetchDone(i, res)
    \/ \E i \in 1..Len(loads), res \in {"ok", "error", "throw"} :
          \E rows \in Orders(progressRows(loads[i].q)) : ProgressFetchDone(i, res, rows)
    \/ \E row \in Payloads : RealtimePayload(row)
    \/ ClearAll
    \/ disconnectedCallback

SpecSwitch == Init /\ [][NextSwitch]_vars

\* ------------------------------------------------------ sort and search

\* handleSortChange: the change event of #sort-select, its value split into
\* key and dir; updateUI re-renders the rows
handleSortChange(key, dir) ==
    /\ view = "workspace"
    /\ [key |-> key, dir |-> dir] # sortState
    /\ sortState' = [key |-> key, dir |-> dir]
    /\ boxes' = updateUI(view, boxes, data, checklistKey, state)
    /\ tbody' = updateUIRows(view, tbody, data, checklistKey, sortState')
    /\ toast' = "none"
    /\ last' = [Event("sortChange", key) EXCEPT !.sub = dir]
    /\ UNCHANGED <<localVars, feedVars, adminVars, checklistKey, state, data, realtimeChannel, view,
                   localStorage, channels, loads, device_progress, upserts, mounted,
                   switches, clicks, deliveries>>

\* filterTable (the debounced input listener of #search-input): rows whose
\* text does not include the query get the class hidden
filterTable(query) ==
    LET lower == trim(toLowerCase(query))
    IN /\ view = "workspace"
       /\ tbody' = [i \in 1..Len(tbody) |->
                      [tbody[i] EXCEPT !.hidden = ~includes(rowText(tbody[i].uid[2]), lower)]]
       /\ toast' = "none"
       /\ last' = Event("filter", "")
       /\ UNCHANGED <<localVars, feedVars, adminVars, sortState, checklistKey, state, data, realtimeChannel,
                      view, boxes, localStorage, channels, loads, device_progress,
                      upserts, mounted, switches, clicks, deliveries>>

\* what the user may type in #search-input: "", "1", "A", " B "
Queries == {<<>>, <<49>>, <<65>>, <<32, 66, 32>>}

\* the device lists the devices query may return for the sorted checklist:
\* up to MaxRows of its devices, in any order
SortLists ==
    UNION {Orders(S) : S \in {T \in SUBSET SortDevices : Cardinality(T) <= MaxRows}}

\* the workspace after checklist S has been loaded with no shared progress:
\* rendered with the default sort, its channel open
InitSort ==
    /\ checklistKey = SortKey
    /\ data \in {[key |-> SortKey, devices |-> l] : l \in SortLists}
    /\ state \in {EmptyState}
           \cup {[checkedDevices |-> {getUniqueDeviceId(SortKey, d)},
                   checkHistory |-> <<getUniqueDeviceId(SortKey, d)>>] :
                      d \in Range(data.devices)}
    /\ localStorage = [k \in Keys \cup {NoKey, SortKey} |->
                          IF k = SortKey /\ state # EmptyState
                          THEN [checked |-> state.checkedDevices,
                                history |-> state.checkHistory]
                          ELSE NoEntry]
    /\ realtimeChannel = 1
    /\ channels = {[id |-> 1, filter |-> SortKey]}
    /\ view = "workspace"
    /\ boxes = renderTableRows(data, checklistKey, state)
    /\ sortState = DefaultSort
    /\ tbody = renderedRows(data, checklistKey, sortState)
    /\ device_progress = {}
    /\ loads = <<>>
    /\ upserts = <<>>
    /\ toast = "none"
    /\ mounted = TRUE
    /\ switches = 1
    /\ clicks = 0
    /\ deliveries = 0
    /\ last = Event("progressDone", "empty")
    /\ feed = <<>>
    /\ toggled = NoToggle
    /\ cleared = {}
    /\ listeners = 0
    /\ AdminIdle

\* Sorting and searching a loaded checklist.
NextSort ==
    \/ \E key \in SortKeys, dir \in SortDirs : handleSortChange(key, dir)
    \/ \E query \in Queries : filterTable(query)

SpecSort == InitSort /\ [][NextSort]_vars

\* ------------------------------------- one viewer and the change feed

\* the tbody click listener and handleRowClick, as RowClick, for a viewer
\* who keeps clicking the row clicked first; `toggled` records the device
\* and the value a toggle gives it: the opposite of its membership before
\* the click
ToggleClick(deviceId, onCheckbox) ==
    LET cb == checkboxAfterClick(boxes[deviceId], onCheckbox)
    IN /\ mounted
       /\ view = "workspace"
       /\ deviceId \in DOMAIN boxes
       /\ IF toggled = NoToggle THEN TRUE ELSE toggled.uid = deviceId
       /\ clicks < MaxClicks
       /\ clicks' = clicks + 1
       /\ state' = handleRowClick(state, deviceId, cb)
       /\ localStorage' = saveInspectedState(localStorage, checklistKey, state')
       /\ boxes' = updateUI(view, boxes, data, checklistKey, state')
       /\ tbody' = updateUIRows(view, tbody, data, checklistKey, sortState)
       /\ upserts' = pushDeviceProgressToSupabase(upserts, checklistKey, deviceId,
                                                  ~cb, Now(clicks'))
       /\ toggled' = [uid |-> deviceId, value |-> deviceId \notin state.checkedDevices]
       /\ toast' = "none"
       /\ last' = Event("click", IF cb THEN "uncheck" ELSE "check")
       /\ UNCHANGED <<localVars, adminVars, sortState, checklistKey, data, realtimeChannel, view,
                      channels, loads, device_progress, mounted, switches, deliveries,
                      feed, cleared>>

\* an upsert of pushDeviceProgressToSupabase is applied by the store, which
\* publishes the new row image on the change feed
UpsertApplied(i) ==
    /\ i \in 1..Len(upserts)
    /\ device_progress' = upsertRow(device_progress, upserts[i])
    /\ feed' = Append(feed, upserts[i])
    /\ toast' = "none"
    /\ state' = upsertSettled(state, upserts[i], "ok")
    /\ upserts' = splice1(upserts, i)
    /\ last' = Event("pushDone", "ok")
    /\ UNCHANGED <<localVars, adminVars, sortState, tbody, checklistKey, data, realtimeChannel,
                   view, boxes, localStorage, channels, loads, mounted, switches,
                   clicks, deliveries, toggled, cleared>>

\* the channel callback delivers the oldest notification of the feed to
\* handleRealtimePayload
FeedDelivers ==
    /\ feed # <<>>
    /\ realtimeChannel # NoChannel
    /\ feed' = Tail(feed)
    /\ IF payloadIgnored(Head(feed), checklistKey)
       THEN /\ last' = Event("realtime", ignoredTag(Head(feed), checklistKey))
            /\ UNCHANGED <<state, localStorage, boxes, tbody>>
       ELSE /\ state' = handleRealtimePayload(state, Head(feed))
            /\ localStorage' = saveInspectedState(localStorage, checklistKey, state')
            /\ boxes' = updateUI(view, boxes, data, checklistKey, state')
            /\ tbody' = updateUIRows(view, tbody, data, checklistKey, sortState)
            /\ last' = Event("realtime",
                             IF state' = state THEN "same"
                             ELSE IF Head(feed).checked THEN "added" ELSE "removed")
    /\ toast' = "none"
    /\ UNCHANGED <<localVars, adminVars, sortState, checklistKey, data, realtimeChannel, view,
                   channels, loads, device_progress, upserts, mounted, switches, clicks,
                   deliveries, toggled, cleared>>

\* One viewer alone: a checklist is selected and loaded, then the viewer
\* clicks one row again and again; the upserts are applied in any order
\* and their notifications come back through the channel.
NextToggle ==
    \/ \E k \in Keys : FirstSelection(k)
    \/ \E i \in 1..Len(loads) : ChecklistFetchDone(i, "ok")
    \/ \E i \in 1..Len(loads) : DeviceFetchDone(i, "ok")
    \/ \E i \in 1..Len(loads), res \in {"ok", "error"} :
          \E rows \in Orders(progressRows(loads[i].q)) : ProgressFetchDone(i, res, rows)
    \/ \E u \in DOMAIN boxes, onCheckbox \in BOOLEAN : ToggleClick(u, onCheckbox)
    \/ \E i \in 1..Len(upserts) : UpsertApplied(i)
    \/ FeedDelivers

SpecToggle == Init /\ [][NextToggle]_vars

\* ------------------------------------------- clear-all and coming back

\* handleGlobalAction('clear-all') confirmed, as ClearAll, by a viewer who
\* clears the checklist that is shown; `cleared` records the checklist
ClearAllConfirmed ==
    /\ mounted
    /\ view = "workspace"
    /\ state' = EmptyState
    /\ localStorage' = saveInspectedState(localStorage, checklistKey, state')
    /\ boxes' = updateUI(view, boxes, data, checklistKey, state')
    /\ tbody' = updateUIRows(view, tbody, data, checklistKey, sortState)
    /\ cleared' = cleared \cup {checklistKey}
    /\ toast' = "cleared"
    /\ last' = Event("clearAll", "")
    /\ UNCHANGED <<localVars, adminVars, sortState, checklistKey, data, realtimeChannel, view,
                   channels, loads, device_progress, upserts, mounted, switches, clicks,
                   deliveries, feed, toggled>>

\* the page is loaded again: the element is constructed anew, its channel
\* and its requests are gone with the old page; localStorage and the
\* store stay
Reload ==
    /\ checklistKey # NoKey
    /\ checklistKey' = NoKey
    /\ state' = EmptyState
    /\ data' = NoData
    /\ realtimeChannel' = NoChannel
    /\ view' = "blank"
    /\ boxes' = NoBoxes
    /\ tbody' = <<>>
    /\ channels' = {}
    /\ loads' = <<>>
    /\ upserts' = <<>>
    /\ toast' = "none"
    /\ mounted' = TRUE
    /\ switches' = 0
    /\ sortState' = DefaultSort
    /\ last' = Event("reload", "")
    /\ UNCHANGED <<localVars, adminVars, localStorage, device_progress, clicks, deliveries,
                   feed, toggled, cleared>>

\* a selection in the picker by a viewer who waits for every load to end
Selection(k) == loads = <<>> /\ attributeChangedCallback(k)

\* Clearing and coming back: checklists are selected and loaded one after
\* the other, the viewer clears, switches and reloads the page; nobody
\* checks a device.
NextClear ==
    \/ \E k \in Keys : Selection(k)
    \/ \E i \in 1..Len(loads) : ChecklistFetchDone(i, "ok")
    \/ \E i \in 1..Len(loads) : DeviceFetchDone(i, "ok")
    \/ \E i \in 1..Len(loads), res \in {"ok", "error"} :
          \E rows \in Orders(progressRows(loads[i].q)) : ProgressFetchDone(i, res, rows)
    \/ ClearAllConfirmed
    \/ Reload

SpecClear == Init /\ [][NextClear]_vars

\* ------------------------------------------------ loads that settle

\* a request of a load in flight returns, with success or with an error
GatewayReturns ==
    \/ \E i \in 1..Len(loads), res \in {"ok", "error", "none"} : ChecklistFetchDone(i, res)
    \/ \E i \in 1..Len(loads), res \in {"ok", "error"} : DeviceFetchDone(i, res)
    \/ \E i \in 1..Len(loads), res \in {"ok", "error", "throw"} :
          \E rows \in Orders(progressRows(loads[i].q)) : ProgressFetchDone(i, res, rows)

\* Activations whose requests all return: checklists are selected, also
\* while a load is in flight, and the element may be removed.
NextLive ==
    \/ \E k \in Keys : attributeChangedCallback(k)
    \/ GatewayReturns
    \/ disconnectedCallback

\* no request stays unanswered for ever: there is neither a timeout nor a
\* cancellation, a call that returns late only delays its continuation
SpecLive == Init /\ [][NextLive]_vars /\ WF_vars(GatewayReturns)

\* ------------------------------------------- progress of removed devices

\* a device_progress table with a checked row of checklist B for a device
\* that is no longer in B's device list (an upload in replace mode deletes
\* and inserts rows of devices only; device_progress keeps its rows)
StaleTable == {Row("B", 3, TRUE, 1), Row("B", 1, TRUE, 2)}

\* the page after it has loaded, over that table
InitStale ==
    /\ Constructed
    /\ device_progress = StaleTable
    /\ localStorage \in {[k \in Keys \cup {NoKey} |-> NoEntry],
                         [k \in Keys \cup {NoKey} |->
                             IF k \in Keys THEN PriorSnapshot(k) ELSE NoEntry]}
    /\ AdminIdle

\* Selecting, clearing and reloading over a table with a stale row.
SpecStale == InitStale /\ [][NextClear]_vars

\* updateProgressSummary: done, total and Math.round((done / total) * 100)
updateProgressSummary(st, dat) ==
    LET total == Len(dat.devices)
        done == Cardinality(st.checkedDevices)
    IN [done |-> done, total |-> total,
        percent |-> IF total > 0 THEN (200 * done + total) \div (2 * total) ELSE 0]

\* ------------------------------------------- local-only workspace (app.js)

\* the element's click listeners run one after the other for one click on
\* a row: each calls handleRowClick with the row the event started in,
\* whose checkbox still has the checked property it was rendered with
\* (pointer-events-none, and updateUI has replaced the row by a new one)
RECURSIVE dispatchClick(_, _, _, _)
dispatchClick(st, deviceId, rendered, n) ==
    IF n = 0 THEN st
    ELSE dispatchClick(handleRowClick(st, deviceId, rendered), deviceId, rendered, n - 1)

\* handleGlobalAction('undo') with a non-empty history: pop, delete
undo(st) ==
    [checkedDevices |-> st.checkedDevices \ {st.checkHistory[Len(st.checkHistory)]},
     checkHistory |-> SubSeq(st.checkHistory, 1, Len(st.checkHistory) - 1)]

\* handleFileImport: the devices of the file that are not checked yet are
\* added to the checked-set
importDevices(st, key, devs) ==
    [st EXCEPT !.checkedDevices = @ \cup {getUniqueDeviceId(key, d) : d \in devs}]

\* what the local-only actions leave alone
sharedVars == <<realtimeChannel, channels, loads, device_progress, upserts, mounted,
                deliveries, sortState, tbody, adminVars, feedVars>>

\* attributeChangedCallback and loadChecklist of app.js: the checklist is
\* taken from CHECKLISTS, the snapshot from localStorage; render() calls
\* attachEventListeners, which adds one more click listener to the element
loadChecklist(newValue) ==
    /\ switches < MaxSwitch
    /\ newValue # checklistKey
    /\ switches' = switches + 1
    /\ checklistKey' = newValue
    /\ data' = [key |-> newValue, devices |-> DevicesOf(newValue)]
    /\ state' = loadInspectedState(localStorage, newValue)
    /\ view' = "workspace"
    /\ boxes' = renderTableRows(data', newValue, state')
    /\ listeners' = listeners + 1
    /\ toast' = "none"
    /\ last' = Event("loadChecklist", newValue)
    /\ UNCHANGED <<sharedVars, localStorage, clicks>>

\* a click on a device row
LocalRowClick(deviceId) ==
    /\ view = "workspace"
    /\ deviceId \in DOMAIN boxes
    /\ clicks < MaxClicks
    /\ clicks' = clicks + 1
    /\ state' = dispatchClick(state, deviceId, boxes[deviceId], listeners)
    /\ localStorage' = saveInspectedState(localStorage, checklistKey, state')
    /\ boxes' = updateUI(view, boxes, data, checklistKey, state')
    /\ toast' = "none"
    /\ last' = Event("click", IF boxes[deviceId] THEN "uncheck" ELSE "check")
    /\ UNCHANGED <<sharedVars, checklistKey, data, view, switches, listeners>>

\* handleGlobalAction('undo')
LocalUndo ==
    /\ view = "workspace"
    /\ IF Len(state.checkHistory) = 0
       THEN /\ toast' = "nothing-to-undo"
            /\ UNCHANGED <<state, localStorage, boxes>>
       ELSE /\ state' = undo(state)
            /\ localStorage' = saveInspectedState(localStorage, checklistKey, state')
            /\ boxes' = updateUI(view, boxes, data, checklistKey, state')
            /\ toast' = "undo"
    /\ last' = Event("undo", "")
    /\ UNCHANGED <<sharedVars, checklistKey, data, view, switches, clicks, listeners>>

\* handleGlobalAction('clear-all'), confirmed
LocalClearAll ==
    /\ view = "workspace"
    /\ state' = EmptyState
    /\ localStorage' = saveInspectedState(localStorage, checklistKey, state')
    /\ boxes' = updateUI(view, boxes, data, checklistKey, state')
    /\ toast' = "cleared"
    /\ last' = Event("clearAll", "")
    /\ UNCHANGED <<sharedVars, checklistKey, data, view, switches, clicks, listeners>>

\* handleFileImport with an export of this checklist listing devices devs
LocalImport(devs) ==
    /\ view = "workspace"
    /\ devs \subseteq Range(data.devices)
    /\ state' = importDevices(state, checklistKey, devs)
    /\ localStorage' = saveInspectedState(localStorage, checklistKey, state')
    /\ boxes' = updateUI(view, boxes, data, checklistKey, state')
    /\ toast' = "imported"
    /\ last' = Event("import", "")
    /\ UNCHANGED <<sharedVars, checklistKey, data, view, switches, clicks, listeners>>

\* the page of app.js after it has loaded: no checklist selected; the Local
\* Mirror is empty or holds what an earlier session has written
InitLocal ==
    /\ Constructed
    /\ device_progress = {}
    /\ localStorage \in {[k \in Keys \cup {NoKey} |-> NoEntry],
                         [k \in Keys \cup {NoKey} |->
                             IF k \in Keys THEN PriorSnapshot(k) ELSE NoEntry]}
    /\ AdminIdle

\* The local-only workspace: selections, row clicks, undo, clear-all, imports.
NextLocal ==
    \/ \E k \in Keys : loadChecklist(k)
    \/ \E u \in DOMAIN boxes : LocalRowClick(u)
    \/ LocalUndo
    \/ LocalClearAll
    \/ \E devs \in SUBSET AllDevices : LocalImport(devs)

SpecLocal == InitLocal /\ [][NextLocal]_vars

\* ------------------------------------------------------------ admin page

\* bounds: flows started in one run, and flows in flight at once
MaxFlows == 2
MaxInFlight == 2

\* checklist objects pasted into #checklist-json: {key, name, location,
\* devices}; "" stands for a missing (falsy) field
Objects ==
    {[key |-> "acme", name |-> "Acme", location |-> "Fire", devices |-> <<1, 2>>],
     [key |-> "beta", name |-> "", location |-> "", devices |-> <<>>]}

Modes == {"replace", "skip"}      \* #existing-mode

\* upsertChecklistFromObject: obj.name || obj.key
companyNameOf(obj) == IF obj.name # "" THEN obj.name ELSE obj.key

\* upsertChecklistFromObject: obj.location || obj.name || obj.key || "Unnamed Checklist"
checklistNameOf(obj) ==
    IF obj.location # "" THEN obj.location
    ELSE IF obj.name # "" THEN obj.name
    ELSE IF obj.key # "" THEN obj.key
    ELSE "Unnamed Checklist"

\* the id the store gives an inserted row: one no row of the table has
newId(table) == CHOOSE n \in 1..(Cardinality(table) + 1) : \A r \in table : r.id # n

\* .maybeSingle(): the row when exactly one matches; no row or several rows
\* (PGRST116, which the callers let pass) give null
maybeSingle(matches) ==
    IF Cardinality(matches) = 1 THEN CHOOSE r \in matches : TRUE ELSE NoRow

\* select from companies where name = name
companiesByName(name) == {c \in companies : c.name = name}

\* select from checklists where company_id = companyId and name = name
checklistsByName(companyId, name) ==
    {c \in checklists : c.company_id = companyId /\ c.name = name}

\* a delete that removes nothing
deleteDevices_none(table, checklistId) == table

\* delete from devices where checklist_id = checklistId
deleteDevices(table, checklistId) == {d \in table : d.checklist_id # checklistId}

\* insert(rows): one row per device of the payload, each with a fresh id
RECURSIVE insertDevices(_, _, _)
insertDevices(table, checklistId, devs) ==
    IF Len(devs) = 0 THEN table
    ELSE insertDevices(table \cup {[id |-> newId(table), checklist_id |-> checklistId,
                                    device |-> devs[1]]},
                       checklistId, Tail(devs))

\* a check that finds every company without checklists
noChecklistsLeft_always(table, companyId) == TRUE

\* deleteChecklistAndDevices: the remaining-checklists select is empty
noChecklistsLeft(table, companyId) == ~ \E c \in table : c.company_id = companyId

\* fetchExistingChecklists: one Delete button per checklist row
listing(table) == {[checklistId |-> c.id, companyId |-> c.company_id] : c \in table}

\* the device rows of a checklist
devicesOfChecklist(checklistId) == {d \in devices : d.checklist_id = checklistId}

\* a flow at one of its awaits; before: the device rows its checklist had
\* when the flow last looked (not a variable of the page)
Flow(kind, pc, obj, mode, company, checklist) ==
    [kind |-> kind, pc |-> pc, obj |-> obj, mode |-> mode, company |-> company,
     checklist |-> checklist, before |-> {}]

\* the flows in flight with flow f replaced by g
Replaced(f, g) == (flows (-) SetToBag({f})) (+) SetToBag({g})

\* the workspace page, which the admin page does not touch
workspaceVars == <<checklistKey, state, data, realtimeChannel, view, boxes,
                   localStorage, channels, loads, device_progress, upserts, toast,
                   mounted, switches, clicks, deliveries, sortState, tbody, feedVars,
                   localVars>>

\* the record of an upload that has returned or thrown
UploadRun(f, outcome) ==
    [kind |-> "upload", obj |-> f.obj, mode |-> f.mode, outcome |-> outcome,
     inRow |-> IF outcome # "ok" THEN 0
               ELSE IF runs.kind = "upload" /\ runs.obj = f.obj /\ runs.mode = f.mode
                       /\ runs.outcome = "ok"
                    THEN runs.inRow + 1
                    ELSE 1,
     company |-> f.company, checklist |-> f.checklist, serial |-> runs.serial,
     before |-> IF outcome = "failed" THEN f.before ELSE {}]

\* the record of a deletion whose store calls are over
DeleteRun(f, outcome) ==
    [kind |-> "delete", obj |-> f.obj, mode |-> "", outcome |-> outcome, inRow |-> 0,
     company |-> f.company, checklist |-> f.checklist, serial |-> runs.serial,
     before |-> {}]

\* handleUploadClick with one checklist object in the textarea, up to the
\* companies select of getOrCreateCompanyByName
StartUpload(obj, mode) ==
    /\ started < MaxFlows
    /\ BagCardinality(flows) < MaxInFlight
    /\ \A g \in BagToSet(flows) : g.kind = "upload"
    /\ started' = started + 1
    /\ flows' = flows (+) SetToBag({Flow("upload", "companySelect", obj, mode, 0, 0)})
    /\ runs' = [runs EXCEPT !.serial = @ /\ flows = EmptyBag]
    /\ UNCHANGED <<workspaceVars, last, companies, checklists, devices, listed>>

\* upsertChecklistFromObject has returned or thrown: handleUploadClick
\* counts it and goes on to fetchExistingChecklists
UploadOver(f, outcome, company, checklist) ==
    /\ flows' = Replaced(f, [f EXCEPT !.pc = "refresh", !.company = company,
                                     !.checklist = checklist, !.before = {}])
    /\ runs' = UploadRun([f EXCEPT !.company = company, !.checklist = checklist],
                         outcome)

\* the flow goes on to its next await
UploadNext(f, pc, company, checklist) ==
    /\ flows' = Replaced(f, [f EXCEPT !.pc = pc, !.company = company,
                                     !.checklist = checklist,
                                     !.before = devicesOfChecklist(checklist)])
    /\ runs' = runs

\* getOrCreateCompanyByName: the select returns
CompanySelectDone(f, res) ==
    LET found == maybeSingle(companiesByName(companyNameOf(f.obj)))
    IN /\ f.kind = "upload" /\ f.pc = "companySelect"
       /\ IF res # "ok" THEN UploadOver(f, "failed", 0, 0)
          ELSE IF found # NoRow THEN UploadNext(f, "checklistSelect", found.id, 0)
          ELSE UploadNext(f, "companyInsert", 0, 0)
       /\ UNCHANGED <<workspaceVars, last, companies, checklists, devices, listed, started>>

\* getOrCreateCompanyByName: the insert returns
CompanyInsertDone(f, res) ==
    LET id == newId(companies)
    IN /\ f.kind = "upload" /\ f.pc = "companyInsert"
       /\ IF res # "ok"
          THEN UploadOver(f, "failed", 0, 0) /\ companies' = companies
          ELSE /\ companies' = companies \cup {[id |-> id, name |-> companyNameOf(f.obj)]}
               /\ UploadNext(f, "checklistSelect", id, 0)
       /\ UNCHANGED <<workspaceVars, last, checklists, devices, listed, started>>

\* getChecklistByName returns; skip mode ends here when the checklist exists
ChecklistSelectDone(f, res) ==
    LET found == maybeSingle(checklistsByName(f.company, checklistNameOf(f.obj)))
    IN /\ f.kind = "upload" /\ f.pc = "checklistSelect"
       /\ IF res # "ok" THEN UploadOver(f, "failed", f.company, 0)
          ELSE IF found = NoRow THEN UploadNext(f, "checklistInsert", f.company, 0)
          ELSE IF f.mode = "skip" THEN UploadOver(f, "skipped", f.company, found.id)
          ELSE UploadNext(f, "devicesDelete", f.company, found.id)
       /\ UNCHANGED <<workspaceVars, last, companies, checklists, devices, listed, started>>

\* createChecklist returns
ChecklistInsertDone(f, res) ==
    LET id == newId(checklists)
    IN /\ f.kind = "upload" /\ f.pc = "checklistInsert"
       /\ IF res # "ok"
          THEN UploadOver(f, "failed", f.company, 0) /\ checklists' = checklists
          ELSE /\ checklists' = checklists \cup
                      {[id |-> id, company_id |-> f.company,
                        name |-> checklistNameOf(f.obj)]}
               /\ UploadNext(f, "devicesDelete", f.company, id)
       /\ UNCHANGED <<workspaceVars, last, companies, devices, listed, started>>

\* replaceDevicesForChecklist: the delete returns; an empty payload ends here
DevicesDeleteDone(f, res) ==
    /\ f.kind = "upload" /\ f.pc = "devicesDelete"
    /\ IF res # "ok"
       THEN UploadOver(f, "failed", f.company, f.checklist) /\ devices' = devices
       ELSE /\ devices' = deleteDevices(devices, f.checklist)
            /\ IF Len(f.obj.devices) = 0
               THEN UploadOver(f, "ok", f.company, f.checklist)
               ELSE UploadNext(f, "devicesInsert", f.company, f.checklist)
    /\ UNCHANGED <<workspaceVars, last, companies, checklists, listed, started>>

\* replaceDevicesForChecklist: the insert of all rows returns
DevicesInsertDone(f, res) ==
    /\ f.kind = "upload" /\ f.pc = "devicesInsert"
    /\ IF res # "ok"
       THEN UploadOver(f, "failed", f.company, f.checklist) /\ devices' = devices
       ELSE /\ devices' = insertDevices(devices, f.checklist, f.obj.devices)
            /\ UploadOver(f, "ok", f.company, f.checklist)
    /\ UNCHANGED <<workspaceVars, last, companies, checklists, listed, started>>

\* fetchExistingChecklists returns: the list is rebuilt, or shows an error
ListRefreshDone(f, res) ==
    /\ f.pc = "refresh"
    /\ listed' = IF res = "ok" THEN listing(checklists) ELSE {}
    /\ flows' = flows (-) SetToBag({f})
    /\ UNCHANGED <<workspaceVars, last, companies, checklists, devices, started, runs>>

\* deleteChecklistAndDevices: window.confirm answered with Cancel
DeleteDeclined(e) ==
    /\ flows = EmptyBag
    /\ e \in listed
    /\ runs' = DeleteRun(Flow("delete", "confirm", [absent |-> TRUE], "", e.companyId,
                              e.checklistId), "declined")
    /\ UNCHANGED <<workspaceVars, last, companies, checklists, devices, flows, listed,
                   started>>

\* a click on a Delete button, confirmed: up to the delete on devices
StartDelete(e) ==
    /\ flows = EmptyBag
    /\ e \in listed
    /\ started < MaxFlows
    /\ started' = started + 1
    /\ flows' = SetToBag({Flow("delete", "delDevices", [absent |-> TRUE], "",
                                 e.companyId, e.checklistId)})
    /\ UNCHANGED <<workspaceVars, last, companies, checklists, devices, listed, runs>>

\* the catch block of deleteChecklistAndDevices: logged, no list refresh
DeleteFailed(f) ==
    /\ flows' = flows (-) SetToBag({f})
    /\ runs' = DeleteRun(f, "failed")

\* the store calls of the deletion are over: toast, fetchExistingChecklists
DeleteOver(f, outcome) ==
    /\ flows' = Replaced(f, [f EXCEPT !.pc = "refresh"])
    /\ runs' = DeleteRun(f, outcome)

\* the deletion goes on to its next await
DeleteNext(f, pc) ==
    /\ flows' = Replaced(f, [f EXCEPT !.pc = pc])
    /\ runs' = runs

\* 1) the delete on devices returns
DelDevicesDone(f, res) ==
    /\ f.kind = "delete" /\ f.pc = "delDevices"
    /\ IF res # "ok"
       THEN DeleteFailed(f) /\ devices' = devices
       ELSE /\ devices' = deleteDevices(devices, f.checklist)
            /\ DeleteNext(f, "delChecklist")
    /\ UNCHANGED <<workspaceVars, last, companies, checklists, listed, started>>

\* 2) the delete on checklists returns; with a company id the remaining
\* checklists of the company are selected
DelChecklistDone(f, res) ==
    /\ f.kind = "delete" /\ f.pc = "delChecklist"
    /\ IF res # "ok"
       THEN DeleteFailed(f) /\ checklists' = checklists
       ELSE /\ checklists' = {c \in checklists : c.id # f.checklist}
            /\ IF f.company # 0 THEN DeleteNext(f, "remaining")
               ELSE DeleteOver(f, "ok")
    /\ UNCHANGED <<workspaceVars, last, companies, devices, listed, started>>

\* 3) the remaining-checklists select returns; an error skips the company
RemainingSelectDone(f, res) ==
    /\ f.kind = "delete" /\ f.pc = "remaining"
    /\ IF res # "ok" THEN DeleteOver(f, "partial")
       ELSE IF noChecklistsLeft(checklists, f.company) THEN DeleteNext(f, "delCompany")
       ELSE DeleteOver(f, "ok")
    /\ UNCHANGED <<workspaceVars, last, companies, checklists, devices, listed, started>>

\* the delete on companies returns; its error is ignored
DelCompanyDone(f, res) ==
    /\ f.kind = "delete" /\ f.pc = "delCompany"
    /\ companies' = IF res = "ok" THEN {c \in companies : c.id # f.company}
                     ELSE companies
    /\ DeleteOver(f, IF res = "ok" THEN "ok" ELSE "partial")
    /\ UNCHANGED <<workspaceVars, last, checklists, devices, listed, started>>

\* the admin page after DOMContentLoaded and its first list fetch, over a
\* store that holds one company with one checklist of one device
InitAdmin ==
    /\ Constructed
    /\ device_progress = {}
    /\ localStorage = [k \in Keys \cup {NoKey} |-> NoEntry]
    /\ companies = {[id |-> 1, name |-> "Acme"]}
    /\ checklists = {[id |-> 1, company_id |-> 1, name |-> "Roof"]}
    /\ devices = {[id |-> 1, checklist_id |-> 1, device |-> 1]}
    /\ listed = listing(checklists)
    /\ flows = EmptyBag
    /\ started = 0
    /\ runs = NoRun

\* The admin page: uploads, which may overlap, and deletions, each step of a
\* flow succeeding or failing at the gateway.
NextAdmin ==
    \/ \E obj \in Objects, mode \in Modes : StartUpload(obj, mode)
    \/ \E f \in BagToSet(flows), res \in {"ok", "error"} : CompanySelectDone(f, res)
    \/ \E f \in BagToSet(flows), res \in {"ok", "error"} : CompanyInsertDone(f, res)
    \/ \E f \in BagToSet(flows), res \in {"ok", "error"} : ChecklistSelectDone(f, res)
    \/ \E f \in BagToSet(flows), res \in {"ok", "error"} : ChecklistInsertDone(f, res)
    \/ \E f \in BagToSet(flows), res \in {"ok", "error"} : DevicesDeleteDone(f, res)
    \/ \E f \in BagToSet(flows), res \in {"ok", "error"} : DevicesInsertDone(f, res)
    \/ \E f \in BagToSet(flows), res \in {"ok", "error"} : ListRefreshDone(f, res)
    \/ \E e \in listed : DeleteDeclined(e)
    \/ \E e \in listed : StartDelete(e)
    \/ \E f \in BagToSet(flows), res \in {"ok", "error"} : DelDevicesDone(f, res)
    \/ \E f \in BagToSet(flows), res \in {"ok", "error"} : DelChecklistDone(f, res)
    \/ \E f \in BagToSet(flows), res \in {"ok", "error"} : RemainingSelectDone(f, res)
    \/ \E f \in BagToSet(flows), res \in {"ok", "error"} : DelCompanyDone(f, res)

SpecAdmin == InitAdmin /\ [][NextAdmin]_vars

\* ================================================================ claims

\* the Local Mirror entry that holds a progress state
Snapshot(st) == [checked |-> st.checkedDevices, history |-> st.checkHistory]

\* what the Local Mirror holds for a key, as a progress state
Mirrored(ls, key) ==
    IF ls[key] = NoEntry THEN [checkedDevices |-> {}, checkHistory |-> <<>>]
    ELSE [checkedDevices |-> ls[key].checked, checkHistory |-> ls[key].history]

\* a user click on the row of device u, on its checkbox or elsewhere
ClickOn(u) == \E onCheckbox \in BOOLEAN : RowClick(u, onCheckbox)

\* C1: a click on a device row toggles the device: an unchecked device
\* becomes checked and is appended to history, a checked device becomes
\* unchecked and its last occurrence is removed from history.
C1_ClickToggles ==
    [][\A u \in DOMAIN boxes : ClickOn(u) =>
          IF u \notin state.checkedDevices
          THEN /\ u \in state'.checkedDevices
               /\ state'.checkHistory = Append(state.checkHistory, u)
          ELSE /\ u \notin state'.checkedDevices
               /\ state'.checkHistory =
                      splice1(state.checkHistory, lastIndexOf(state.checkHistory, u))]_vars

\* the progress state after one more click on the rendered row of d, the
\* row's checkbox showing the membership of d (updateUI has run)
AfterClick(st, d) ==
    handleRowClick(st, d, checkboxAfterClick(d \in st.checkedDevices, TRUE))

\* C2: two consecutive clicks on an unchecked device (check, then uncheck)
\* leave the checked-set and history as they were before the first click.
C2_ToggleRoundTrip ==
    \A d \in DOMAIN boxes :
        d \notin state.checkedDevices => AfterClick(AfterClick(state, d), d) = state

\* C3: after a load whose device_progress fetch returned rows, the
\* checked-set is the set of uids of the rows with checked = true, history
\* lists exactly those uids in ascending updated_at order, and the Local
\* Mirror entry of the checklist holds this state.
C3_SyncedLoad ==
    (last.op = "progressDone" /\ last.tag = "synced") =>
        LET chk == {r \in device_progress : r.checklist_id = checklistKey /\ r.checked}
            at(u) == (CHOOSE r \in chk : r.device_uid = u).updated_at
            h == state.checkHistory
        IN /\ state.checkedDevices = {r.device_uid : r \in chk}
           /\ Len(h) = Cardinality(chk)
           /\ Range(h) = state.checkedDevices
           /\ \A a, b \in 1..Len(h) : a < b => at(h[a]) <= at(h[b])
           /\ localStorage[checklistKey] = Snapshot(state)

C3_Witness ==
    /\ last.op = "progressDone" /\ last.tag = "synced"
    /\ Len(state.checkHistory) = 2
    /\ localStorage[checklistKey] # PriorSnapshot(checklistKey)

\* C4: a load whose device_progress fetch returned no rows ends LocalOnly:
\* the progress state is the Local Mirror's snapshot for the checklist, or
\* empty without one, and the Local Mirror is left as it was.
C4_EmptyResult ==
    [][\A i \in 1..Len(loads) : ProgressFetchDone(i, "ok", <<>>) =>
          /\ last'.tag = "empty"
          /\ state' = Mirrored(localStorage, checklistKey)
          /\ localStorage' = localStorage]_vars

C4_Witness ==
    /\ last.op = "progressDone" /\ last.tag = "empty"
    /\ state.checkedDevices # {}
    /\ localStorage[checklistKey] = Snapshot(state)

\* C5: a failed device_progress fetch does not fail the load: the progress
\* state comes from the Local Mirror, a warning is shown, the workspace is
\* rendered and a subscription filtered on the checklist is open.
C5_FetchFailure ==
    (last.op = "progressDone" /\ last.tag = "failed") =>
        /\ state = Mirrored(localStorage, checklistKey)
        /\ toast = "progress-warning"
        /\ view = "workspace"
        /\ \E c \in channels : c.id = realtimeChannel /\ c.filter = checklistKey

C5_Witness ==
    /\ last.op = "progressDone" /\ last.tag = "failed"
    /\ state.checkedDevices # {}
    /\ device_progress # {}

\* a notification the handler does not return early on
RowOfActive(row) ==
    /\ row # NoRow
    /\ row.checklist_id = checklistKey
    /\ row.device_uid # EmptyUid

\* C6: after a notification for the active checklist with device_uid u, u
\* is in the checked-set iff the row's checked flag is true, no other
\* device changed, and the Local Mirror entry is the in-memory snapshot.
C6_NotificationApplied ==
    [][\A row \in Payloads : (RowOfActive(row) /\ RealtimePayload(row)) =>
          /\ (row.device_uid \in state'.checkedDevices) <=> row.checked
          /\ state'.checkedDevices \ {row.device_uid} =
                 state.checkedDevices \ {row.device_uid}
          /\ localStorage'[checklistKey] = Snapshot(state')]_vars

C6_Witness ==
    /\ last.op = "realtime" /\ last.tag = "removed"
    /\ localStorage[checklistKey] = Snapshot(state)

\* C7: no notification changes history.
C7_NotificationKeepsHistory ==
    [][\A row \in Payloads : RealtimePayload(row) =>
          state'.checkHistory = state.checkHistory]_vars

C7_Witness ==
    /\ last.op = "realtime" /\ last.tag = "added"
    /\ \E u \in state.checkedDevices : u \notin Range(state.checkHistory)

\* C8: a notification without a row image, for another checklist or
\* without a device_uid changes neither the progress state nor the Local
\* Mirror, and writes nothing to the gateway.
C8_NotificationIgnored ==
    [][\A row \in Payloads : (~RowOfActive(row) /\ RealtimePayload(row)) =>
          /\ state' = state
          /\ localStorage' = localStorage
          /\ upserts' = upserts
          /\ device_progress' = device_progress]_vars

C8_Witness ==
    /\ last.op = "realtime" /\ last.tag = "other-checklist"
    /\ realtimeChannel # NoChannel

\* C9: at most one subscription of the element is open at the gateway, and
\* it is the one the element holds.
C9_OneSubscription ==
    /\ Cardinality(channels) <= 1
    /\ \A c \in channels : c.id = realtimeChannel

C9_Witness ==
    /\ last.op = "progressDone" /\ last.sub = "replaced"
    /\ Cardinality(channels) = 1

\* C10: once the element has been removed from the document, no
\* subscription of it is open.
C10_NoSubscriptionAfterUnmount == ~mounted => channels = {}

\* the rows of a table other than the one keyed like row
OtherRows(table, row) ==
    {r \in table : ~(r.checklist_id = row.checklist_id /\ r.device_uid = row.device_uid)}

\* C11: write-through: when a toggle has issued its upsert, the Local Mirror
\* entry of the active checklist already holds the snapshot of the progress
\* state as mutated by that toggle.
C11_WriteThrough ==
    [][\A u \in DOMAIN boxes : ClickOn(u) =>
          /\ Len(upserts') = Len(upserts) + 1
          /\ localStorage'[checklistKey] = Snapshot(state')]_vars

C11_Witness ==
    /\ last.op = "click"
    /\ upserts # <<>>
    /\ Len(state.checkHistory) > Cardinality(state.checkedDevices)
    /\ localStorage[checklistKey] = Snapshot(state)

\* C12: a toggle issues exactly one upsert, keyed by the active checklist
\* and the toggled device, whose checked value is the device's membership
\* in the checked-set right after the toggle; the toggle writes nothing to
\* device_progress itself, and its upsert, once applied, changes no row
\* with another key.
C12_OneUpsertPerToggle ==
    [][/\ \A u \in DOMAIN boxes : ClickOn(u) =>
             /\ Len(upserts') = Len(upserts) + 1
             /\ SubSeq(upserts', 1, Len(upserts)) = upserts
             /\ upserts'[Len(upserts')].checklist_id = checklistKey
             /\ upserts'[Len(upserts')].device_uid = u
             /\ upserts'[Len(upserts')].checked = (u \in state'.checkedDevices)
             /\ device_progress' = device_progress
       /\ \A i \in 1..Len(upserts) : PushDone(i, "ok") =>
             /\ OtherRows(device_progress', upserts[i]) =
                    OtherRows(device_progress, upserts[i])
             /\ upserts[i] \in device_progress']_vars

C12_Witness ==
    /\ last.op = "pushDone" /\ last.tag = "ok"
    /\ \E r \in device_progress : r.updated_at = Now(1) /\ r.checked

\* C13: a failed upsert (error result or throw) leaves the checked-set,
\* history and the Local Mirror as they were, and writes nothing to
\* device_progress.
C13_FailedUpsertNoRollback ==
    [][\A i \in 1..Len(upserts), res \in {"error", "throw"} : PushDone(i, res) =>
          /\ state' = state
          /\ localStorage' = localStorage
          /\ device_progress' = device_progress]_vars

\* a first toggle whose upsert failed, then a second toggle, processed
C13_Witness ==
    /\ last.op = "click"
    /\ clicks = 2
    /\ Len(upserts) = 1
    /\ \A r \in device_progress : r.updated_at < Now(1)
    /\ localStorage[checklistKey] = Snapshot(state)

\* C14: the checked-set is the set of device_uids occurring in history.
C14_CheckedIsSetOfHistory == state.checkedDevices = Range(state.checkHistory)

\* C15: no device_uid occurs twice in history.
C15_NoDuplicateHistory ==
    \A a, b \in 1..Len(state.checkHistory) :
        state.checkHistory[a] = state.checkHistory[b] => a = b

\* the progress state after the channel callback has handled a notification
Delivered(st, row) ==
    IF payloadIgnored(row, checklistKey) THEN st ELSE handleRealtimePayload(st, row)

IndexOf(devs, d) == CHOOSE i \in 1..Len(devs) : devs[i] = d

\* rw shows the devices of devs, each once, ordered by the lower-cased
\* string form of the field (ascending, or descending), devices with equal
\* keys in the order they have in devs
StableSorted(rw, devs, key, dir) ==
    /\ Len(rw) = Len(devs)
    /\ {rw[i].uid : i \in 1..Len(rw)} =
           {getUniqueDeviceId(checklistKey, devs[i]) : i \in 1..Len(devs)}
    /\ \A i, j \in 1..Len(rw) : i < j =>
          LET a == rw[i].uid[2]
              b == rw[j].uid[2]
          IN /\ IF dir = "asc"
                THEN ~strLess(sortValue(b, key), sortValue(a, key))
                ELSE ~strLess(sortValue(a, key), sortValue(b, key))
             /\ sortValue(a, key) = sortValue(b, key) =>
                    IndexOf(devs, a) < IndexOf(devs, b)

\* C17: the rows are a stable sort of the device list by the lower-cased
\* string form of the selected field, ascending or descending, ties in
\* device-list order; sorting and searching change neither the device
\* list nor the checked-set, history or the Local Mirror, and searching
\* does not reorder the rows.
C17_StableStringSort ==
    [][/\ \A key \in SortKeys, dir \in SortDirs : handleSortChange(key, dir) =>
             /\ StableSorted(tbody', data.devices, key, dir)
             /\ UNCHANGED <<data, state, localStorage>>
       /\ \A query \in Queries : filterTable(query) =>
             /\ [i \in 1..Len(tbody') |-> tbody'[i].uid] =
                    [i \in 1..Len(tbody) |-> tbody[i].uid]
             /\ UNCHANGED <<data, state, localStorage>>]_vars

\* addresses 2, 10, 1 sorted ascending are shown as 1, 10, 2
C17_Witness ==
    /\ last.op = "sortChange"
    /\ sortState = [key |-> "address", dir |-> "asc"]
    /\ data.devices = <<4, 5, 6>>
    /\ [i \in 1..Len(tbody) |-> addressOf(tbody[i].uid[2])] = <<1, 10, 2>>

\* the last flow to end was a successful replace-mode upload, every upload
\* so far ran alone, and nothing but a list refresh is still in flight
ReplacedAlone ==
    /\ runs.kind = "upload" /\ runs.mode = "replace" /\ runs.outcome = "ok"
    /\ runs.inRow >= 1
    /\ runs.serial
    /\ \A g \in BagToSet(flows) : g.pc = "refresh"

\* C18: after the same checklist object has been uploaded in replace mode
\* one or more times in a row, one run at a time and without a failure,
\* the store holds exactly one company row of its name, exactly one
\* checklist row of that company and checklist name, and exactly as many
\* device rows of that checklist as the payload has devices.
C18_ReplaceIdempotent ==
    ReplacedAlone =>
        /\ companiesByName(companyNameOf(runs.obj)) =
               {[id |-> runs.company, name |-> companyNameOf(runs.obj)]}
        /\ checklistsByName(runs.company, checklistNameOf(runs.obj)) =
               {[id |-> runs.checklist, company_id |-> runs.company,
                 name |-> checklistNameOf(runs.obj)]}
        /\ Cardinality(devicesOfChecklist(runs.checklist)) = Len(runs.obj.devices)
        /\ \A i \in 1..Len(runs.obj.devices) :
               \E d \in devicesOfChecklist(runs.checklist) : d.device = runs.obj.devices[i]

\* a payload of two devices uploaded twice in a row leaves two device rows
C18_Witness ==
    /\ ReplacedAlone
    /\ runs.inRow = 2
    /\ Len(runs.obj.devices) = 2
    /\ flows = EmptyBag
    /\ Cardinality(devicesOfChecklist(runs.checklist)) = 2

\* the store calls of deletion f end in this step, none of them failed
DeletionSucceeds(f) ==
    /\ f.kind = "delete" /\ f.pc # "refresh"
    /\ flows' = Replaced(f, [f EXCEPT !.pc = "refresh"])
    /\ runs' = DeleteRun(f, "ok")

\* C19: when a confirmed deletion ends with every gateway call successful,
\* the checklist row and every device row of the checklist are gone, and
\* the row of the owning company is gone exactly when no checklist of that
\* company is left; a declined confirmation deletes no row.
C19_DeletionRemovesRows ==
    [][/\ \A f \in BagToSet(flows) : DeletionSucceeds(f) =>
             /\ ~ \E c \in checklists' : c.id = f.checklist
             /\ ~ \E d \in devices' : d.checklist_id = f.checklist
             /\ (~ \E c \in companies' : c.id = f.company) <=>
                    (~ \E c \in checklists' : c.company_id = f.company)
       /\ \A e \in listed : DeleteDeclined(e) =>
             UNCHANGED <<companies, checklists, devices>>]_vars

\* a checklist has been deleted and its company, which owns another
\* checklist, is still there
C19_Witness ==
    /\ runs.kind = "delete" /\ runs.outcome = "ok"
    /\ ~ \E c \in checklists : c.id = runs.checklist
    /\ \E c \in companies : c.id = runs.company
    /\ \E c \in checklists : c.company_id = runs.company

\* C20: in every state of the store there is at most one company row of
\* a name, whatever the number of upload flows and the interleaving of
\* their lookups and inserts.
C20_CompanyNamesUnique ==
    \A c1, c2 \in companies : c1.name = c2.name => c1 = c2

\* the load at position i fails in this step: the checklists query returns
\* an error or no row, or the devices query returns an error
LoadFails(i) ==
    \/ ChecklistFetchDone(i, "error")
    \/ ChecklistFetchDone(i, "none")
    \/ DeviceFetchDone(i, "error")

\* C21: when the checklist lookup returns an error or no row, or the
\* device fetch returns an error, the inline error replaces the workspace,
\* checked-set and history are empty, the Local Mirror is not written, no
\* subscription is open and no further load is in flight.
C21_LoadFailureState ==
    [][\A i \in 1..Len(loads) : LoadFails(i) =>
          /\ view' = "error" /\ toast' = "load-failed"
          /\ state' = EmptyState
          /\ localStorage' = localStorage
          /\ realtimeChannel' = NoChannel /\ channels' = {}
          /\ loads' = <<>>]_vars

\* a failed device fetch has left the inline error
C21_Witness ==
    /\ last = Event("loadFailed", "devices")
    /\ view = "error"
    /\ state = EmptyState
    /\ channels = {}

\* every device_uid of the progress st belongs to checklist k
ProgressOf(st, k) ==
    /\ st.checkedDevices \subseteq UidsOf(k)
    /\ Range(st.checkHistory) \subseteq UidsOf(k)

\* C22: in every state, also when a load started for an earlier checklist
\* completes after a switch, the checked-set and history held for the
\* active checklist and the Local Mirror entry stored under its id hold
\* only device_uids of that checklist.
C22_NoCrossChecklistLeak ==
    checklistKey \in Keys =>
        /\ ProgressOf(state, checklistKey)
        /\ ProgressOf(loadInspectedState(localStorage, checklistKey), checklistKey)

\* C23: once every load in flight has completed, the loaded data belongs
\* to the active checklist: data.key is the current key, and the device
\* list was fetched for that key.
C23_DataOfActiveChecklist ==
    (loads = <<>> /\ view = "workspace" /\ checklistKey \in Keys) =>
        /\ data.key = checklistKey
        /\ data.devices = DevicesOf(checklistKey)

\* C24: every open subscription of the workspace is filtered on the
\* current checklist key, under every interleaving of switches and load
\* completions; none filtered on an earlier checklist stays open.
C24_SubscriptionOfActiveChecklist ==
    \A c \in channels : c.filter = checklistKey

\* after a second switch a load overtaken by another has replaced the
\* subscription, and the open one is filtered on the current key
C24_Witness ==
    /\ switches = 2
    /\ last.op = "progressDone" /\ last.sub = "replaced"
    /\ \E c \in channels : c.filter = checklistKey

\* the row of device_progress stored for a device of the active checklist
persistedRows(uid) ==
    {r \in device_progress : r.checklist_id = checklistKey /\ r.device_uid = uid}

\* C25: when one viewer alone has toggled a device several times, every
\* upsert has been applied and every notification delivered, the persisted
\* checked flag of the device and its membership in the checked-set both
\* equal the value of the most recent toggle.
C25_LastToggleWins ==
    (toggled # NoToggle /\ upserts = <<>> /\ feed = <<>>) =>
        /\ (toggled.uid \in state.checkedDevices) = toggled.value
        /\ \A r \in persistedRows(toggled.uid) : r.checked = toggled.value
        /\ persistedRows(toggled.uid) # {}

\* C26: a confirmed clear-all leaves checked-set, history and the Local
\* Mirror snapshot empty, and when the cleared checklist is activated
\* again, nobody having checked a device since, its checked-set is empty.
C26_ClearAllStays ==
    /\ last.op = "clearAll" =>
           /\ state = EmptyState
           /\ localStorage[checklistKey] = [checked |-> {}, history |-> <<>>]
    /\ (checklistKey \in cleared /\ view = "workspace" /\ loads = <<>>) =>
           state.checkedDevices = {}

\* a load ends in this step
LoadEnds == Len(loads') < Len(loads)

\* C27: when every gateway call returns, the view leaves Loading and
\* every load ends; a load ends either in the load failure or in Synced
\* or LocalOnly, and in the latter case the subscription for the active
\* checklist is open when it ends.
C27_ActivationSettles ==
    /\ (view = "loading") ~> (view \in {"workspace", "error"})
    /\ (loads # <<>>) ~> (loads = <<>>)
    /\ [][LoadEnds =>
             \/ /\ last'.op = "loadFailed"
                /\ view' = "error"
             \/ /\ last'.op = "progressDone"
                /\ last'.tag \in {"synced", "empty", "failed"}
                /\ view' = "workspace"
                /\ [id |-> realtimeChannel', filter |-> checklistKey'] \in channels']_vars

\* the second of two activations has ended in Synced with its channel open
C27_Witness ==
    /\ switches = 2
    /\ loads = <<>>
    /\ last.op = "progressDone" /\ last.tag = "synced"
    /\ [id |-> realtimeChannel, filter |-> checklistKey] \in channels

\* C28: in the local-only workspace history holds no device_uid twice and
\* every device_uid of history is in the checked-set, after any sequence
\* of selections, row clicks, undo, clear-all and imports.
C28_LocalHistorySound ==
    /\ \A a, b \in 1..Len(state.checkHistory) :
           state.checkHistory[a] = state.checkHistory[b] => a = b
    /\ Range(state.checkHistory) \subseteq state.checkedDevices

\* C29: the number of checked devices shown is at most the number of
\* devices of the active checklist, and the percentage shown is between
\* 0 and 100, whatever rows device_progress holds.
C29_CounterBounded ==
    (view = "workspace" /\ data # NoData) =>
        LET shown == updateProgressSummary(state, data)
        IN /\ shown.done <= shown.total
           /\ shown.percent \in 0..100

\* the last flow to end was an upload that failed inside
\* replaceDevicesForChecklist (its checklist row was found or created),
\* every upload so far ran alone, and nothing but a list refresh is still
\* in flight
ReplaceFailedAlone ==
    /\ runs.kind = "upload" /\ runs.mode = "replace" /\ runs.outcome = "failed"
    /\ runs.checklist # 0
    /\ runs.serial
    /\ \A g \in BagToSet(flows) : g.pc = "refresh"

\* C30: when the delete or the batch insert of replaceDevicesForChecklist
\* fails, the upload is counted as failed and the device rows of the
\* checklist are exactly the ones it had before the upload.
C30_ReplaceAllOrNothing ==
    ReplaceFailedAlone => devicesOfChecklist(runs.checklist) = runs.before

====
